---- MODULE Spec2Model ----
(***************************************************************************)
(* The streaming response decoder of claude-sdk:                           *)
(*   ClaudeClient::send_streaming_anthropic (src/src/client.rs:354-430)    *)
(*   StreamEvent / ContentDelta / StreamError (src/src/streaming.rs)       *)
(*   the consumer loop of examples/streaming_chat.rs                       *)
(*                                                                         *)
(* The wire is a character string.  The byte source hands it over in       *)
(* chunks of any size; `byte_stream.eventsource()` buffers the chunks and  *)
(* cuts them into server-sent events, the `map` closure decodes each event *)
(* and `try_filter_map` drops the `None` results.                          *)
(***************************************************************************)
EXTENDS Integers, Sequences, FiniteSets, TLC

(***************************************************************************)
(* Strings.  TLC treats a string as a sequence of characters for Len,      *)
(* SubSeq and \o.                                                          *)
(***************************************************************************)
LF == "\n"
CR == "\r"

Ch(s, i) == SubSeq(s, i, i)
From(s, i) == SubSeq(s, i, Len(s))
EndsWith(s, p) == Len(s) >= Len(p) /\ SubSeq(s, Len(s) - Len(p) + 1, Len(s)) = p

\* The first index >= i of s that holds a character of stops; 0 when none does.
Find(s, i, stops) ==
    LET hits == {j \in i..Len(s) : Ch(s, j) \in stops} IN
    IF hits = {} THEN 0 ELSE CHOOSE j \in hits : \A k \in hits : j <= k

(***************************************************************************)
(* eventsource_stream's line parser (nom, streaming): a line is a comment  *)
(* (":..."), a field ("name" or "name:value", one space after the colon    *)
(* dropped) or empty, and ends with CRLF, CR or LF.  A line whose end is   *)
(* not in the input yet, or whose CR is the last character of the input    *)
(* (an LF may follow), is Incomplete.                                      *)
(***************************************************************************)
Incomplete == [kind |-> "Incomplete", field |-> "", val |-> "", consumed |-> 0]

\* end_of_line at index k of s, where Ch(s, k) is CR or LF: the index after it,
\* or 0 when a CR ends the input.
end_of_line(s, k) ==
    IF Ch(s, k) = LF THEN k + 1
    ELSE IF k = Len(s) THEN 0
    ELSE IF Ch(s, k + 1) = LF THEN k + 2
    ELSE k + 1

Terminated(kind, field, val, s, k) ==
    IF k = 0 \/ end_of_line(s, k) = 0 THEN Incomplete
    ELSE [kind |-> kind, field |-> field, val |-> val,
          consumed |-> end_of_line(s, k) - 1]

line(s) ==
    IF s = "" THEN Incomplete
    ELSE IF Ch(s, 1) = ":" THEN
        Terminated("Comment", "", "", s, Find(s, 2, {CR, LF}))
    ELSE IF Ch(s, 1) \in {CR, LF} THEN
        Terminated("Empty", "", "", s, 1)
    ELSE
        LET j == Find(s, 1, {":", CR, LF}) IN
        IF j = 0 THEN Incomplete
        ELSE IF Ch(s, j) # ":" THEN
            Terminated("Field", SubSeq(s, 1, j - 1), "", s, j)
        ELSE IF j = Len(s) THEN Incomplete
        ELSE
            LET v == IF Ch(s, j + 1) = " " THEN j + 2 ELSE j + 1
                k == Find(s, v, {CR, LF})
            IN  IF k = 0 THEN Incomplete
                ELSE Terminated("Field", SubSeq(s, 1, j - 1),
                                SubSeq(s, v, k - 1), s, k)

(***************************************************************************)
(* eventsource_stream's EventBuilder: the event under construction.        *)
(***************************************************************************)
EmptyBuilder == [event |-> "", data |-> "", is_complete |-> FALSE]

add(b, l) ==
    CASE l.kind = "Empty" -> [b EXCEPT !.is_complete = TRUE]
      [] l.kind = "Field" /\ l.field = "event" -> [b EXCEPT !.event = l.val]
      [] l.kind = "Field" /\ l.field = "data" ->
            [b EXCEPT !.data = b.data \o l.val \o LF]
      [] OTHER -> b

NoEvent == [some |-> FALSE, event |-> "", data |-> ""]

\* dispatch: nothing when the data buffer is empty; else the event, its last
\* LF removed and its name defaulted to "message".
dispatch(b) ==
    IF b.data = "" THEN NoEvent
    ELSE [some |-> TRUE,
          event |-> IF b.event = "" THEN "message" ELSE b.event,
          data |-> IF EndsWith(b.data, LF)
                   THEN SubSeq(b.data, 1, Len(b.data) - 1) ELSE b.data]

\* parse_event: consume lines of the buffer until an event is dispatched or the
\* rest of the buffer is an incomplete line.
RECURSIVE parse_event(_, _)

\* The builder b has taken a line and rem is what follows the line.
after_line(rem, b) ==
    IF b.is_complete
    THEN IF dispatch(b).some
         THEN [buffer |-> rem, builder |-> EmptyBuilder, ev |-> dispatch(b)]
         ELSE parse_event(rem, EmptyBuilder)
    ELSE parse_event(rem, b)

\* l is the first line of the buffer.
take_line(buffer, builder, l) ==
    IF l.kind = "Incomplete"
    THEN [buffer |-> buffer, builder |-> builder, ev |-> NoEvent]
    ELSE after_line(From(buffer, l.consumed + 1), add(builder, l))

parse_event(buffer, builder) == take_line(buffer, builder, line(buffer))

(***************************************************************************)
(* serde_json::from_str on the payload shapes of the modelled logs.  JSON  *)
(* whitespace outside string literals is insignificant; the payloads hold  *)
(* no escapes, the discriminator "type" comes first and the other fields   *)
(* follow in declaration order.                                            *)
(***************************************************************************)
Quote == "\""
Digits == {"0", "1", "2", "3", "4", "5", "6", "7", "8", "9"}
JsonWs == {" ", LF, CR, "\t"}

\* s[lo..hi] without the whitespace outside string literals, and whether the
\* scan ends inside a literal; inStr says whether it starts inside one.
RECURSIVE StripRange(_, _, _, _)
StripRange(s, lo, hi, inStr) ==
    IF lo > hi THEN [str |-> "", inStr |-> inStr]
    ELSE IF lo = hi THEN
        LET c == Ch(s, lo) IN
        IF c = Quote THEN [str |-> c, inStr |-> ~inStr]
        ELSE IF ~inStr /\ c \in JsonWs THEN [str |-> "", inStr |-> inStr]
        ELSE [str |-> c, inStr |-> inStr]
    ELSE
        LET mid == (lo + hi) \div 2
            l == StripRange(s, lo, mid, inStr)
            r == StripRange(s, mid + 1, hi, l.inStr)
        IN  [str |-> l.str \o r.str, inStr |-> r.inStr]

StripWs(s) == StripRange(s, 1, Len(s), FALSE).str

\* Index after the literal lit at index i of c; 0 when it is not there.
Lit(c, i, lit) ==
    IF i # 0 /\ i + Len(lit) - 1 <= Len(c) /\ SubSeq(c, i, i + Len(lit) - 1) = lit
    THEN i + Len(lit) ELSE 0

\* Index after the string literal that opens at index i of c; 0 when none does.
StrEnd(c, i) ==
    IF i # 0 /\ i <= Len(c) /\ Ch(c, i) = Quote /\ Find(c, i + 1, {Quote}) # 0
    THEN Find(c, i + 1, {Quote}) + 1 ELSE 0

StrVal(c, i) == SubSeq(c, i + 1, StrEnd(c, i) - 2)

RECURSIVE NumEnd(_, _)
NumEnd(c, i) ==
    IF i # 0 /\ i <= Len(c) /\ Ch(c, i) \in Digits THEN NumEnd(c, i + 1) ELSE i

DigitVal(d) ==
    CASE d = "0" -> 0 [] d = "1" -> 1 [] d = "2" -> 2 [] d = "3" -> 3
      [] d = "4" -> 4 [] d = "5" -> 5 [] d = "6" -> 6 [] d = "7" -> 7
      [] d = "8" -> 8 [] d = "9" -> 9

RECURSIVE ParseNat(_)
ParseNat(s) ==
    IF s = "" THEN 0
    ELSE 10 * ParseNat(SubSeq(s, 1, Len(s) - 1)) + DigitVal(Ch(s, Len(s)))

\* A decoded value: every StreamEvent variant in one record shape.
Ev(variant, index, delta, text, error_type, message) ==
    [variant |-> variant, index |-> index, delta |-> delta, text |-> text,
     error_type |-> error_type, message |-> message]
NoValue == Ev("", 0, "", "", "", "")
Parsed(v) == [ok |-> TRUE, value |-> v, msg |-> ""]
ParseFailed(msg) == [ok |-> FALSE, value |-> NoValue, msg |-> msg]

\* struct StreamError { #[serde(rename = "type")] error_type, message }, read
\* at index i of c; `next` is the index after the object, 0 on failure.
StreamErrorAt(c, i) ==
    LET k == Lit(c, i, "{\"type\":")
        m == Lit(c, StrEnd(c, k), ",\"message\":")
        e == Lit(c, StrEnd(c, m), "}")
    IN  IF e = 0 THEN [next |-> 0, error_type |-> "", message |-> ""]
        ELSE [next |-> e, error_type |-> StrVal(c, k), message |-> StrVal(c, m)]

from_str_StreamError(data) ==
    LET c == StripWs(data)
        r == StreamErrorAt(c, 1)
    IN  IF r.next = Len(c) + 1
        THEN Parsed(Ev("Error", 0, "", "", r.error_type, r.message))
        ELSE ParseFailed("invalid StreamError")

\* Index after the number at index i of c; 0 when there is none.
NumAfter(c, i) == IF NumEnd(c, i) > i THEN NumEnd(c, i) ELSE 0

\* StreamEvent::MessageStart { message: MessageMetadata }, the fields after the
\* tag read at index i of c: id, type, role, content (empty), model and usage
\* {input_tokens, output_tokens}.  The decoded value keeps the role in `delta`,
\* the id in `text` and the model in `message`.
MessageStartAt(c, i, end) ==
    LET a == Lit(c, i, ",\"message\":{\"id\":")
        b == Lit(c, StrEnd(c, a), ",\"type\":")
        r == Lit(c, StrEnd(c, b), ",\"role\":")
        m == Lit(c, StrEnd(c, r), ",\"content\":[],\"model\":")
        u == Lit(c, StrEnd(c, m), ",\"usage\":{\"input_tokens\":")
        o == Lit(c, NumAfter(c, u), ",\"output_tokens\":")
    IN  IF Lit(c, NumAfter(c, o), "}}}") = end
        THEN IF StrVal(c, r) \in {"user", "assistant"}
             THEN Parsed(Ev("MessageStart", 0, StrVal(c, r), StrVal(c, a), "",
                            StrVal(c, m)))
             ELSE ParseFailed("unknown variant " \o StrVal(c, r))
        ELSE ParseFailed("invalid message_start")

\* StreamEvent::ContentBlockStart { index, content_block }, the fields after the
\* tag read at index i of c, the block being ContentBlock::Text.  The decoded
\* value keeps the block's type in `delta` and its text in `text`.
ContentBlockStartAt(c, i, end) ==
    LET k == Lit(c, i, ",\"index\":")
        b == Lit(c, NumAfter(c, k), ",\"content_block\":{\"type\":\"text\",\"text\":")
    IN  IF Lit(c, StrEnd(c, b), "}}") = end
        THEN Parsed(Ev("ContentBlockStart", ParseNat(SubSeq(c, k, NumEnd(c, k) - 1)),
                       "text", StrVal(c, b), "", ""))
        ELSE ParseFailed("invalid content_block_start")

\* enum ContentDelta, #[serde(tag = "type", rename_all = "snake_case")]: the
\* payload field of each variant.
DeltaField(tag) ==
    CASE tag = "text_delta" -> "text"
      [] tag = "input_json_delta" -> "partial_json"
      [] tag = "thinking_delta" -> "thinking"
      [] tag = "signature_delta" -> "signature"
      [] OTHER -> ""

\* enum StreamEvent, #[serde(tag = "type", rename_all = "snake_case")]: the
\* variant is the one the payload's "type" names.  The payload of
\* message_delta (nested objects of types.rs) is not among the modelled logs;
\* without its fields it fails.
from_str_StreamEvent(data) ==
    LET c == StripWs(data)
        t == Lit(c, 1, "{\"type\":")
        r == StrEnd(c, t)
        tag == IF r = 0 THEN "" ELSE StrVal(c, t)
        end == Len(c) + 1
    IN  IF r = 0 THEN ParseFailed("expected tagged object")
        ELSE CASE tag = "message_stop" ->
                    IF Lit(c, r, "}") = end
                    THEN Parsed(Ev("MessageStop", 0, "", "", "", ""))
                    ELSE ParseFailed("invalid message_stop")
               [] tag = "ping" ->
                    IF Lit(c, r, "}") = end
                    THEN Parsed(Ev("Ping", 0, "", "", "", ""))
                    ELSE ParseFailed("invalid ping")
               [] tag = "content_block_stop" ->
                    LET i == Lit(c, r, ",\"index\":")
                        j == NumEnd(c, i)
                    IN  IF i # 0 /\ j > i /\ Lit(c, j, "}") = end
                        THEN Parsed(Ev("ContentBlockStop",
                                       ParseNat(SubSeq(c, i, j - 1)), "", "", "", ""))
                        ELSE ParseFailed("invalid content_block_stop")
               [] tag = "content_block_delta" ->
                    LET i == Lit(c, r, ",\"index\":")
                        j == NumEnd(c, i)
                        d == Lit(c, IF j > i THEN j ELSE 0, ",\"delta\":{\"type\":")
                        dt == IF StrEnd(c, d) = 0 THEN "" ELSE StrVal(c, d)
                        f == Lit(c, StrEnd(c, d),
                                 ",\"" \o DeltaField(dt) \o "\":")
                    IN  IF DeltaField(dt) # "" /\ Lit(c, StrEnd(c, f), "}}") = end
                        THEN Parsed(Ev("ContentBlockDelta",
                                       ParseNat(SubSeq(c, i, j - 1)), dt,
                                       StrVal(c, f), "", ""))
                        ELSE ParseFailed("invalid content_block_delta")
               [] tag = "error" ->
                    LET o == StreamErrorAt(c, Lit(c, r, ",\"error\":")) IN
                    IF Lit(c, o.next, "}") = end
                    THEN Parsed(Ev("Error", 0, "", "", o.error_type, o.message))
                    ELSE ParseFailed("invalid error")
               [] tag = "message_start" -> MessageStartAt(c, r, end)
               [] tag = "content_block_start" -> ContentBlockStartAt(c, r, end)
               [] tag = "message_delta" -> ParseFailed("missing field")
               [] OTHER -> ParseFailed("unknown variant " \o tag)

(***************************************************************************)
(* The closure of `event_stream.map(...)`: one item of the event stream    *)
(* becomes Ok(Some(event)), Ok(None) or Err(Error::StreamParse(message)).  *)
(***************************************************************************)
SseEvent(ev) == [ok |-> TRUE, event |-> ev.event, data |-> ev.data, cause |-> ""]
SseError(cause) == [ok |-> FALSE, event |-> "", data |-> "", cause |-> cause]

SomeEvent(v) == [kind |-> "Some", value |-> v, error |-> "", msg |-> ""]
NoneEvent == [kind |-> "None", value |-> NoValue, error |-> "", msg |-> ""]
StreamParse(msg) == [kind |-> "Err", value |-> NoValue, error |-> "StreamParse", msg |-> msg]

\* The variant that serde's rename_all = "snake_case" names by a tag.
VariantOfTag(tag) ==
    CASE tag = "message_start" -> "MessageStart"
      [] tag = "content_block_start" -> "ContentBlockStart"
      [] tag = "content_block_delta" -> "ContentBlockDelta"
      [] tag = "content_block_stop" -> "ContentBlockStop"
      [] tag = "message_delta" -> "MessageDelta"
      [] tag = "message_stop" -> "MessageStop"
      [] tag = "ping" -> "Ping"
      [] tag = "error" -> "Error"
      [] OTHER -> ""

\* Mutant: the message of a failed parse does not name the frame.
map_err_NoPrefix(e, prefix) ==
    IF e.ok THEN SomeEvent(e.value) ELSE StreamParse(e.msg)

\* `.map_err(|e| Error::StreamParse(...))?` and `Ok(Some(stream_event))`: e is
\* what serde_json::from_str returned, prefix what the message starts with.
map_err(e, prefix) ==
    IF e.ok THEN SomeEvent(e.value) ELSE StreamParse(prefix \o e.msg)

\* Mutant: the payload of a ping frame is parsed like any other.
DecodeNamed_PingParsed(result) ==
    CASE result.event = "error" -> map_err(from_str_StreamError(result.data), "")
      [] OTHER ->
            map_err(from_str_StreamEvent(result.data),
                    "Failed to parse event '" \o result.event \o "': ")

DecodeNamed(result) ==
    CASE result.event = "ping" -> SomeEvent(Ev("Ping", 0, "", "", "", ""))
      [] result.event = "error" -> map_err(from_str_StreamError(result.data), "")
      [] OTHER ->
            map_err(from_str_StreamEvent(result.data),
                    "Failed to parse event '" \o result.event \o "': ")

\* Mutant: the empty-data check is missing.
MapEvent_NoEmptySkip(result) ==
    IF ~result.ok THEN StreamParse(result.cause) ELSE DecodeNamed(result)

\* Mutant: ping frames are swallowed.
MapEvent_PingDropped(result) ==
    IF ~result.ok THEN StreamParse(result.cause)
    ELSE IF result.data = "" \/ result.event = "ping" THEN NoneEvent
    ELSE DecodeNamed(result)

\* Mutant: an error frame fails the pull with its message.
MapEvent_ErrorFrameFails(result) ==
    IF ~result.ok THEN StreamParse(result.cause)
    ELSE IF result.data = "" THEN NoneEvent
    ELSE IF result.event = "error" /\ from_str_StreamError(result.data).ok
    THEN StreamParse(from_str_StreamError(result.data).value.message)
    ELSE DecodeNamed(result)

\* Mutant: the frame's event name selects the variant.
MapEvent_ByName(result) ==
    IF ~result.ok THEN StreamParse(result.cause)
    ELSE IF result.data = "" THEN NoneEvent
    ELSE IF /\ result.event \notin {"ping", "error"}
            /\ from_str_StreamEvent(result.data).ok
            /\ from_str_StreamEvent(result.data).value.variant
                  # VariantOfTag(result.event)
    THEN StreamParse("Failed to parse event '" \o result.event \o "': type mismatch")
    ELSE DecodeNamed(result)

MapEvent(result) ==
    IF ~result.ok THEN StreamParse(result.cause)
    ELSE IF result.data = "" THEN NoneEvent
    ELSE DecodeNamed(result)

(***************************************************************************)
(* What one pull hands to the consumer.                                    *)
(***************************************************************************)
OkItem(v) == [kind |-> "Ok", value |-> v, error |-> "", msg |-> ""]
ErrItem(m) == [kind |-> "Err", value |-> NoValue, error |-> m.error, msg |-> m.msg]
EndItem == [kind |-> "End", value |-> NoValue, error |-> "", msg |-> ""]
Pending == [kind |-> "Pending", value |-> NoValue, error |-> "", msg |-> ""]

\* `stream.try_filter_map(|opt| async move { Ok(opt) })` over the mapped event
\* stream, as far as the buffered input goes: mapped events that are None are
\* skipped, the first Some or Err is yielded, and Pending says that the buffer
\* holds no further complete event.
\* Mutant: after a mapped event that is None the buffer is not looked at again.
poll_buffered_StopsAtNone(buffer, builder) ==
    LET p == parse_event(buffer, builder)
        m == MapEvent(SseEvent(p.ev))
    IN  [buffer |-> p.buffer, builder |-> p.builder,
         item |-> IF ~p.ev.some \/ m.kind = "None" THEN Pending
                  ELSE IF m.kind = "Some" THEN OkItem(m.value) ELSE ErrItem(m)]

RECURSIVE poll_buffered(_, _)

\* try_filter_map on the mapped event m that parse_event's result p gave.
try_filter_map(p, m) ==
    CASE m.kind = "None" -> poll_buffered(p.buffer, p.builder)
      [] m.kind = "Some" ->
            [buffer |-> p.buffer, builder |-> p.builder, item |-> OkItem(m.value)]
      [] OTHER ->
            [buffer |-> p.buffer, builder |-> p.builder, item |-> ErrItem(m)]

\* map on parse_event's result p.
map_parsed(p) ==
    IF ~p.ev.some
    THEN [buffer |-> p.buffer, builder |-> p.builder, item |-> Pending]
    ELSE try_filter_map(p, MapEvent(SseEvent(p.ev)))

poll_buffered(buffer, builder) == map_parsed(parse_event(buffer, builder))

(***************************************************************************)
(* The logs: what the server writes.  A frame is an optional event line,   *)
(* data lines and a blank line.                                            *)
(***************************************************************************)
Frame(event, lines, eol) == [event |-> event, lines |-> lines, eol |-> eol]

RECURSIVE DataLines(_, _)
DataLines(lines, eol) ==
    IF lines = <<>> THEN ""
    ELSE "data: " \o Head(lines) \o eol \o DataLines(Tail(lines), eol)

RenderFrame(f) ==
    (IF f.event = "" THEN "" ELSE "event: " \o f.event \o f.eol)
        \o DataLines(f.lines, f.eol) \o f.eol

RECURSIVE Render(_)
Render(fs) == IF fs = <<>> THEN "" ELSE RenderFrame(Head(fs)) \o Render(Tail(fs))

StopJson == "{\"type\":\"message_stop\"}"
BlockStopJson == "{\"type\":\"content_block_stop\",\"index\":1}"
OverloadedJson == "{\"type\":\"overloaded_error\",\"message\":\"Overloaded\"}"

FStop == Frame("message_stop", <<StopJson>>, LF)
FBlockStop == Frame("content_block_stop", <<BlockStopJson>>, CR \o LF)
FPing == Frame("ping", <<"{\"type\": \"ping\"}">>, LF)
FPingJunk == Frame("ping", <<"?">>, LF)
FPingEmpty == Frame("ping", <<>>, LF)
FStopEmpty == Frame("message_stop", <<>>, LF)
FErrorEmpty == Frame("error", <<"">>, LF)
FError == Frame("error", <<OverloadedJson>>, LF)
FErrorBad == Frame("error", <<"{\"type\":\"overloaded_error\"}">>, LF)
FBad == Frame("content_block_stop", <<"{\"type\":">>, LF)
FMismatch == Frame("message_start", <<StopJson>>, LF)
FTwoLines == Frame("", <<"{\"type\":", "\"message_stop\"}">>, LF)
FData == Frame("", <<StopJson>>, LF)

PlainFrames == {FData, FPingEmpty}
SpecialFrames == {FStop, FBlockStop, FPing, FPingJunk, FStopEmpty, FErrorEmpty, FError,
                  FErrorBad, FBad, FMismatch, FTwoLines}

MaxFrames == 2
MaxChunk == 4
MaxChunkLog == 2
MaxPullsAfterEnd == 1

AllFrames == PlainFrames \cup SpecialFrames

\* Every log of at most MaxFrames frames of which at most one is special, and
\* every frame between two frames that yield an event.
Logs ==
    UNION {{fs \in [1..n -> AllFrames] :
               \A i, j \in 1..n : i # j => fs[i] \in PlainFrames \/ fs[j] \in PlainFrames}
           : n \in 0..MaxFrames}
      \cup {<<FData, f, FData>> : f \in AllFrames}

\* The sizes a chunk may have: up to MaxChunk bytes, the 18 bytes of
\* "event: message_sto", or all the bytes that are left.
ChunkSizes(left) ==
    {n \in (1..MaxChunk) \cup {Len("event: message_sto"), left} : 1 <= n /\ n <= left}

\* The causes a failing byte source reports (EventStreamError's Display).
Causes == {"Transport error: connection reset", "UTF8 error: invalid utf-8"}

(***************************************************************************)
(* State.                                                                  *)
(***************************************************************************)
VARIABLES
    frames,     \* the frames the server writes
    wire,       \* their bytes
    sent,       \* number of bytes of the wire the byte source has delivered
    chunks,     \* the sizes of the chunks delivered; <<0>> when they are not logged
    source,     \* the byte source: "open", "failed" or "closed"
    buffer,     \* EventStream::buffer
    builder,    \* EventStream::builder
    state,      \* EventStream::state: "Started" or "Terminated"
    pc,         \* the consumer: "idle", "awaiting" (inside next().await), "dropped"
    out,        \* the items the pulls have returned, in order
    released    \* how many times the response body has been released

streamVars ==
    <<frames, wire, sent, chunks, source, buffer, builder, state, pc, out, released>>

\* retry_with_backoff (src/src/retry.rs) and its caller.
VARIABLES
    caller,     \* "retry_with_backoff" (any operation) or "send_message_with_retry"
    config,     \* the RetryConfig
    attempt,    \* the local `attempt`
    rpc,        \* where the call is: "loop", "sleeping" or "returned"
    calls,      \* how many times the operation has been invoked
    replies,    \* the HTTP exchanges of the invocations, in order
    results,    \* what the invocations returned, in order
    sleeps,     \* the durations slept, in milliseconds, in order
    returned    \* what the call returned

retryVars == <<caller, config, attempt, rpc, calls, replies, results, sleeps, returned>>

\* The consumer's use of the ContentDelta accessors (src/src/streaming.rs).
VARIABLES
    handled,    \* how many of the items yielded the consumer has looked at
    accessed    \* what the accessors returned for each ContentBlockDelta, in order

deltaVars == <<handled, accessed>>

\* ConversationBuilder (src/src/conversation.rs).
VARIABLES
    messages,   \* ConversationBuilder::messages
    added,      \* the messages added since the last clear_messages, in order
    request,    \* the last MessagesRequest built
    tools,      \* the builder's tool definitions
    system      \* the builder's system prompt

convVars == <<messages, added, request, tools, system>>

\* BatchClient::wait_for_completion (src/src/batch.rs) and the batch it polls.
VARIABLES
    processing_status,  \* the batch on the server
    bpc,                \* the call: "retrieve", "sleeping" or "returned"
    seen,               \* what the last MaxPolls retrieves returned, in order
    naps,               \* the seconds of the last MaxPolls sleeps, in order
    completion          \* what the call returned

batchVars == <<processing_status, bpc, seen, naps, completion>>

\* What a step of one part leaves alone.
notStream == <<retryVars, deltaVars, convVars, batchVars>>
notRetry == <<streamVars, deltaVars, convVars, batchVars>>
notDelta == <<retryVars, convVars, batchVars>>
notConv == <<streamVars, retryVars, deltaVars, batchVars>>
notBatch == <<streamVars, retryVars, deltaVars, convVars>>

vars == <<streamVars, retryVars, deltaVars, convVars, batchVars>>

\* Option<u64>
None == [some |-> FALSE, secs |-> 0]
Some(secs) == [some |-> TRUE, secs |-> secs]

\* A value of enum Error: the variant and the fields that decide anything.
Error(variant, status, retry_after) ==
    [variant |-> variant, status |-> status, retry_after |-> retry_after]

\* A Result<T>: Ok(value) or Err(error).
Ok == [ok |-> TRUE, error |-> Error("", 0, None)]
Err(error) == [ok |-> FALSE, error |-> error]

\* RetryConfig, durations in milliseconds; RetryConfig::default().
RetryConfig(max_attempts, initial_backoff, max_backoff, backoff_multiplier, respect_retry_after) ==
    [max_attempts |-> max_attempts, initial_backoff |-> initial_backoff,
     max_backoff |-> max_backoff, backoff_multiplier |-> backoff_multiplier,
     respect_retry_after |-> respect_retry_after]
default == RetryConfig(3, 500, 60000, 2, TRUE)

\* No call of retry_with_backoff is under way.
RetryIdle ==
    /\ caller = "retry_with_backoff"
    /\ config = default
    /\ attempt = 0
    /\ rpc = "returned"
    /\ calls = 0
    /\ replies = <<>>
    /\ results = <<>>
    /\ sleeps = <<>>
    /\ returned = Ok

\* The consumer has looked at nothing.
DeltaIdle == handled = 0 /\ accessed = <<>>

\* A new ConversationBuilder of which nothing has been built.
\* Option<SystemPrompt> and Option<Vec<Tool>>.
NoSystem == [some |-> FALSE, prompt |-> "", cached |-> FALSE]
NoTools == [some |-> FALSE, tools |-> <<>>]

\* The fields of a MessagesRequest that build() sets.
MessagesRequest(msgs, sys, tls) == [messages |-> msgs, system |-> sys, tools |-> tls]

ConvIdle ==
    /\ messages = <<>>
    /\ added = <<>>
    /\ request = MessagesRequest(<<>>, NoSystem, NoTools)
    /\ tools = <<>>
    /\ system = NoSystem

\* A Result<MessageBatch>: Ok(batch), of which the processing_status counts,
\* or Err(error).
BatchOk(status) == [ok |-> TRUE, processing_status |-> status, error |-> Error("", 0, None)]
BatchErr(error) == [ok |-> FALSE, processing_status |-> "", error |-> error]

\* No call of wait_for_completion is under way.
BatchIdle ==
    /\ processing_status = "ended"
    /\ bpc = "returned"
    /\ seen = <<>>
    /\ naps = <<>>
    /\ completion = BatchOk("ended")

\* No stream is open.
StreamIdle ==
    /\ frames = <<>>
    /\ wire = ""
    /\ sent = 0
    /\ chunks = <<0>>
    /\ source = "closed"
    /\ buffer = ""
    /\ builder = EmptyBuilder
    /\ state = "Terminated"
    /\ pc = "dropped"
    /\ out = <<>>
    /\ released = 1

Ends(items) == Len(SelectSeq(items, LAMBDA it : it.kind = "End"))

Init ==
    /\ frames \in Logs
    /\ wire = Render(frames)
    /\ sent = 0
    /\ chunks = <<0>>
    /\ source = "open"
    /\ buffer = ""
    /\ builder = EmptyBuilder
    /\ state = "Started"
    /\ pc = "idle"
    /\ out = <<>>
    /\ released = 0
    /\ RetryIdle
    /\ DeltaIdle
    /\ ConvIdle
    /\ BatchIdle

\* push_str: a chunk is appended to the bytes not yet consumed.
push_str(buf, chunk) == buf \o chunk

\* The content blocks that the items yielded have opened and not stopped.
RECURSIVE OpenBlocks(_)
OpenBlocks(items) ==
    IF items = <<>> THEN {}
    ELSE LET it == items[Len(items)]
             before == OpenBlocks(SubSeq(items, 1, Len(items) - 1))
         IN  IF it.kind # "Ok" THEN before
             ELSE IF it.value.variant = "ContentBlockStart"
             THEN before \cup {it.value.index}
             ELSE IF it.value.variant = "ContentBlockStop"
             THEN before \ {it.value.index}
             ELSE before

\* Mutant: a delta or a stop of a block that is not open is an error.
Polled_ChecksIndex(p, terminated) ==
    /\ buffer' = p.buffer
    /\ builder' = p.builder
    /\ IF p.item.kind # "Pending"
       THEN /\ out' = Append(out,
                    IF /\ p.item.kind = "Ok"
                       /\ p.item.value.variant \in {"ContentBlockDelta", "ContentBlockStop"}
                       /\ p.item.value.index \notin OpenBlocks(out)
                    THEN ErrItem(StreamParse("content block is not open"))
                    ELSE p.item)
            /\ pc' = "idle"
       ELSE IF terminated
       THEN out' = Append(out, EndItem) /\ pc' = "idle"
       ELSE out' = out /\ pc' = "awaiting"

\* What a poll leaves behind, p being what the buffered input gave: the rest of
\* the buffer, the builder, and either an item for the consumer, the end when
\* the event stream has terminated, or the wait for the byte source.
Polled(p, terminated) ==
    /\ buffer' = p.buffer
    /\ builder' = p.builder
    /\ IF p.item.kind # "Pending"
       THEN out' = Append(out, p.item) /\ pc' = "idle"
       ELSE IF terminated
       THEN out' = Append(out, EndItem) /\ pc' = "idle"
       ELSE out' = out /\ pc' = "awaiting"

\* Mutant: a pull on a terminated stream starts over from the bytes received.
Pull_Restarts ==
    /\ pc = "idle"
    /\ Ends(out) <= MaxPullsAfterEnd
    /\ IF state = "Terminated"
       THEN Polled(poll_buffered(SubSeq(wire, 1, sent), EmptyBuilder), TRUE)
       ELSE Polled(poll_buffered(buffer, builder), FALSE)
    /\ UNCHANGED notStream
    /\ UNCHANGED <<frames, wire, sent, chunks, source, state, released>>

\* stream.next(): what the buffer holds is decoded first; a terminated event
\* stream yields None; otherwise the byte source is polled.
Pull ==
    /\ pc = "idle"
    /\ Ends(out) <= MaxPullsAfterEnd
    /\ Polled(poll_buffered(buffer, builder), state = "Terminated")
    /\ UNCHANGED notStream
    /\ UNCHANGED <<frames, wire, sent, chunks, source, state, released>>

\* Mutant: every chunk is decoded on its own.
Recv_PerChunk(n) ==
    /\ pc = "awaiting"
    /\ source = "open"
    /\ sent' = sent + n
    /\ chunks' = IF chunks # <<0>> /\ Len(chunks) < MaxChunkLog
                 THEN Append(chunks, n) ELSE <<0>>
    /\ Polled(poll_buffered(SubSeq(wire, sent + 1, sent + n), EmptyBuilder), FALSE)
    /\ UNCHANGED notStream
    /\ UNCHANGED <<frames, wire, source, state, released>>

\* The byte source delivers the next n bytes.
Recv(n) ==
    /\ pc = "awaiting"
    /\ source = "open"
    /\ sent' = sent + n
    /\ chunks' = IF chunks # <<0>> /\ Len(chunks) < MaxChunkLog
                 THEN Append(chunks, n) ELSE <<0>>
    /\ Polled(poll_buffered(push_str(buffer, SubSeq(wire, sent + 1, sent + n)),
                            builder), FALSE)
    /\ UNCHANGED notStream
    /\ UNCHANGED <<frames, wire, source, state, released>>

\* Mutant: a failure of the byte source ends the stream.
RecvErr_AsEnd(cause) ==
    /\ pc = "awaiting"
    /\ source = "open"
    /\ source' = "failed"
    /\ state' = "Terminated"
    /\ out' = Append(out, EndItem)
    /\ pc' = "idle"
    /\ UNCHANGED notStream
    /\ UNCHANGED <<frames, wire, sent, chunks, buffer, builder, released>>

\* The byte source fails: a connection error or bytes that are not UTF-8.
\* Mutant: a failure of the byte source makes the stream issue the request
\* again and start over.
RecvErr_Reconnects(cause) ==
    /\ pc = "awaiting"
    /\ source = "open"
    /\ calls' = calls + 1
    /\ sent' = 0
    /\ buffer' = ""
    /\ builder' = EmptyBuilder
    /\ UNCHANGED <<frames, wire, chunks, source, state, pc, out, released>>
    /\ UNCHANGED <<caller, config, attempt, rpc, replies, results, sleeps, returned>>
    /\ UNCHANGED <<deltaVars, convVars, batchVars>>

RecvErr(cause) ==
    /\ pc = "awaiting"
    /\ source = "open"
    /\ source' = "failed"
    /\ out' = Append(out, ErrItem(MapEvent(SseError(cause))))
    /\ pc' = "idle"
    /\ UNCHANGED notStream
    /\ UNCHANGED <<frames, wire, sent, chunks, buffer, builder, state, released>>

\* Mutant: the end of the byte source is reported as an error.
RecvEnd_AsError ==
    /\ pc = "awaiting"
    /\ source \in {"open", "failed"}
    /\ source' = "closed"
    /\ state' = "Terminated"
    /\ out' = Append(out, ErrItem(StreamParse("unexpected end of stream")))
    /\ pc' = "idle"
    /\ UNCHANGED notStream
    /\ UNCHANGED <<frames, wire, sent, chunks, buffer, builder, released>>

\* Mutant: at the end of the byte source the event under construction is
\* dispatched.
RecvEnd_Flushes ==
    /\ pc = "awaiting"
    /\ source \in {"open", "failed"}
    /\ source' = "closed"
    /\ state' = "Terminated"
    /\ out' = IF dispatch(builder).some /\ MapEvent(SseEvent(dispatch(builder))).kind = "Some"
              THEN Append(out, OkItem(MapEvent(SseEvent(dispatch(builder))).value))
              ELSE Append(out, EndItem)
    /\ pc' = "idle"
    /\ UNCHANGED notStream
    /\ UNCHANGED <<frames, wire, sent, chunks, buffer, builder, released>>

\* The byte source ends, after the last byte, early, or after it failed.
RecvEnd ==
    /\ pc = "awaiting"
    /\ source \in {"open", "failed"}
    /\ source' = "closed"
    /\ state' = "Terminated"
    /\ out' = Append(out, EndItem)
    /\ pc' = "idle"
    /\ UNCHANGED notStream
    /\ UNCHANGED <<frames, wire, sent, chunks, buffer, builder, released>>

\* Mutant: the response body outlives the stream.
Drop_Leaks ==
    /\ pc \in {"idle", "awaiting"}
    /\ pc' = "dropped"
    /\ UNCHANGED notStream
    /\ UNCHANGED <<frames, wire, sent, chunks, source, buffer, builder, state, out,
                   released>>

\* The consumer lets go of the stream, which owns the response body.
Drop ==
    /\ pc \in {"idle", "awaiting"}
    /\ pc' = "dropped"
    /\ released' = released + 1
    /\ UNCHANGED notStream
    /\ UNCHANGED <<frames, wire, sent, chunks, source, buffer, builder, state, out>>

Next ==
    \/ Pull
    \/ \E n \in ChunkSizes(Len(wire) - sent) : Recv(n)
    \/ \E cause \in Causes : RecvErr(cause)
    \/ RecvEnd
    \/ Drop

Spec == Init /\ [][Next]_vars

\* The logs of one frame, with the sizes of the first MaxChunkLog chunks logged.
InitChunks ==
    /\ frames \in {<<f>> : f \in AllFrames}
    /\ wire = Render(frames)
    /\ sent = 0
    /\ chunks = <<>>
    /\ source = "open"
    /\ buffer = ""
    /\ builder = EmptyBuilder
    /\ state = "Started"
    /\ pc = "idle"
    /\ out = <<>>
    /\ released = 0
    /\ RetryIdle
    /\ DeltaIdle
    /\ ConvIdle
    /\ BatchIdle

SpecChunks == InitChunks /\ [][Next]_vars

(***************************************************************************)
(* Errors (src/src/error.rs).                                              *)
(***************************************************************************)
\* Mutant: every Server error is retryable, whatever its status.
is_retryable_AnyServer(e) == e.variant \in {"RateLimit", "Server", "Network"}

is_retryable(e) ==
    CASE e.variant = "RateLimit" -> TRUE
      [] e.variant = "Server" -> e.status >= 500
      [] e.variant = "Network" -> TRUE
      [] OTHER -> FALSE

retry_after(e) == IF e.variant = "RateLimit" THEN e.retry_after ELSE None

(***************************************************************************)
(* ClaudeClient::send_anthropic (src/src/client.rs:166-244): one HTTP      *)
(* exchange.  A reply says whether the request got a response at all, the  *)
(* status, the parsed retry-after header, and whether the body is the JSON *)
(* that its status calls for.                                              *)
(***************************************************************************)
Reply(status, header, body) ==
    [received |-> TRUE, status |-> status, retry_after |-> header, body |-> body]
NoReply == [received |-> FALSE, status |-> 0, retry_after |-> None, body |-> ""]

is_server_error(status) == 500 <= status /\ status < 600

\* Mutant: 429 has no arm of its own and falls to the last one.
send_anthropic_NoRateLimitArm(reply) ==
    IF ~reply.received THEN Err(Error("Http", 0, None))
    ELSE CASE reply.status = 200 ->
                IF reply.body = "json" THEN Ok ELSE Err(Error("Http", 0, None))
           [] reply.status \in {401, 403} -> Err(Error("Authentication", 0, None))
           [] reply.status = 400 ->
                IF reply.body = "json" THEN Err(Error("Api", reply.status, None))
                ELSE Err(Error("InvalidRequest", 0, None))
           [] OTHER ->
                IF is_server_error(reply.status)
                THEN Err(Error("Server", reply.status, None))
                ELSE Err(Error("Api", reply.status, None))

send_anthropic(reply) ==
    IF ~reply.received THEN Err(Error("Http", 0, None))
    ELSE CASE reply.status = 200 ->
                IF reply.body = "json" THEN Ok ELSE Err(Error("Http", 0, None))
           [] reply.status = 429 -> Err(Error("RateLimit", 0, reply.retry_after))
           [] reply.status \in {401, 403} -> Err(Error("Authentication", 0, None))
           [] reply.status = 400 ->
                IF reply.body = "json" THEN Err(Error("Api", reply.status, None))
                ELSE Err(Error("InvalidRequest", 0, None))
           [] OTHER ->
                IF is_server_error(reply.status)
                THEN Err(Error("Server", reply.status, None))
                ELSE Err(Error("Api", reply.status, None))

\* ClaudeClient::handle_error_response: the error of a status that is not a
\* success.
handle_error_response(reply) ==
    CASE reply.status = 429 -> Error("RateLimit", 0, reply.retry_after)
      [] reply.status \in {401, 403} -> Error("Authentication", 0, None)
      [] reply.status = 400 ->
            IF reply.body = "json" THEN Error("Api", reply.status, None)
            ELSE Error("InvalidRequest", 0, None)
      [] OTHER ->
            IF is_server_error(reply.status) THEN Error("Server", reply.status, None)
            ELSE Error("Api", reply.status, None)

is_success(status) == 200 <= status /\ status < 300

\* Mutant: a request that got no response is a network error.
send_streaming_anthropic_Network(reply) ==
    IF ~reply.received THEN Err(Error("Network", 0, None))
    ELSE IF is_success(reply.status) THEN Ok
    ELSE Err(handle_error_response(reply))

\* ClaudeClient::send_streaming_anthropic (src/src/client.rs:354-429) up to the
\* return: Ok stands for Ok(stream).
send_streaming_anthropic(reply) ==
    IF ~reply.received THEN Err(Error("Http", 0, None))
    ELSE IF is_success(reply.status) THEN Ok
    ELSE Err(handle_error_response(reply))

(***************************************************************************)
(* retry_with_backoff (src/src/retry.rs).  Durations are milliseconds.     *)
(***************************************************************************)
Min(a, b) == IF a <= b THEN a ELSE b

RECURSIVE powi(_, _)
powi(x, n) == IF n = 0 THEN 1 ELSE x * powi(x, n - 1)

\* Mutant: the exponential backoff is not capped.
calculate_backoff_Uncapped(cfg, n, hint) ==
    IF cfg.respect_retry_after /\ hint.some
    THEN Min(hint.secs * 1000, cfg.max_backoff)
    ELSE cfg.initial_backoff * powi(cfg.backoff_multiplier, n)

calculate_backoff(cfg, n, hint) ==
    IF cfg.respect_retry_after /\ hint.some
    THEN Min(hint.secs * 1000, cfg.max_backoff)
    ELSE Min(cfg.initial_backoff * powi(cfg.backoff_multiplier, n), cfg.max_backoff)

MaxAttempts == 4

\* The configurations: max_attempts from 0, with and without respect for
\* retry-after, and two backoff settings.
Configs ==
    {RetryConfig(m, b[1], b[2], b[3], r) :
        m \in 0..MaxAttempts, b \in {<<1000, 60000, 2>>, <<500, 1500, 3>>},
        r \in BOOLEAN}

\* The errors an operation may return, and what it may return.
Errors ==
    {Error("RateLimit", 0, h) : h \in {None, Some(1), Some(120)}}
      \cup {Error("Server", st, None) : st \in {499, 500}}
      \cup {Error(v, 0, None) : v \in {"Http", "Json", "InvalidRequest", "Authentication",
                                      "Network", "StreamParse"}}
      \cup {Error("Api", 400, None)}
Results == {Ok} \cup {Err(e) : e \in Errors}

\* The exchanges send_anthropic may meet.
Replies ==
    {NoReply, Reply(200, None, "json"), Reply(200, None, "text"),
     Reply(400, None, "json"), Reply(400, None, "text"), Reply(401, None, "text"),
     Reply(403, None, "text"), Reply(404, None, "text"), Reply(500, None, "text"),
     Reply(503, None, "text")}
      \cup {Reply(429, h, "text") : h \in {None, Some(1), Some(120)}}

InitRetry ==
    /\ StreamIdle
    /\ DeltaIdle
    /\ ConvIdle
    /\ BatchIdle
    /\ caller \in {"retry_with_backoff", "send_message_with_retry"}
    /\ config \in Configs
    /\ attempt = 0
    /\ rpc = "loop"
    /\ calls = 0
    /\ replies = <<>>
    /\ results = <<>>
    /\ sleeps = <<>>
    /\ returned = Ok

\* The end of a turn of the loop whose operation returned result: return, or
\* sleep before the next turn.
Turned(result) ==
    IF result.ok THEN rpc' = "returned" /\ returned' = result /\ sleeps' = sleeps
    ELSE IF ~is_retryable(result.error)
    THEN rpc' = "returned" /\ returned' = result /\ sleeps' = sleeps
    ELSE IF attempt' >= config.max_attempts
    THEN rpc' = "returned" /\ returned' = result /\ sleeps' = sleeps
    ELSE /\ sleeps' = Append(sleeps, calculate_backoff(config, attempt' - 1,
                                                       retry_after(result.error)))
         /\ rpc' = "sleeping"
         /\ returned' = returned

\* Mutant: one attempt more than max_attempts.
Attempt_OneMore(reply, result) ==
    /\ rpc = "loop"
    /\ attempt' = attempt + 1
    /\ calls' = calls + 1
    /\ replies' = Append(replies, reply)
    /\ results' = Append(results, result)
    /\ IF result.ok \/ ~is_retryable(result.error) \/ attempt' > config.max_attempts
       THEN rpc' = "returned" /\ returned' = result /\ sleeps' = sleeps
       ELSE /\ sleeps' = Append(sleeps, calculate_backoff(config, attempt' - 1,
                                                          retry_after(result.error)))
            /\ rpc' = "sleeping"
            /\ returned' = returned
    /\ UNCHANGED <<caller, config>>
    /\ UNCHANGED notRetry

\* Mutant: every error is retried while attempts remain.
Attempt_RetriesAll(reply, result) ==
    /\ rpc = "loop"
    /\ attempt' = attempt + 1
    /\ calls' = calls + 1
    /\ replies' = Append(replies, reply)
    /\ results' = Append(results, result)
    /\ IF result.ok \/ attempt' >= config.max_attempts
       THEN rpc' = "returned" /\ returned' = result /\ sleeps' = sleeps
       ELSE /\ sleeps' = Append(sleeps, calculate_backoff(config, attempt' - 1,
                                                          retry_after(result.error)))
            /\ rpc' = "sleeping"
            /\ returned' = returned
    /\ UNCHANGED <<caller, config>>
    /\ UNCHANGED notRetry

\* One turn of the loop: the attempt is counted, the operation is invoked and
\* its result is matched.
Attempt(reply, result) ==
    /\ rpc = "loop"
    /\ attempt' = attempt + 1
    /\ calls' = calls + 1
    /\ replies' = Append(replies, reply)
    /\ results' = Append(results, result)
    /\ Turned(result)
    /\ UNCHANGED <<caller, config>>
    /\ UNCHANGED notRetry

\* retry_with_backoff with any operation.
Operation(result) == caller = "retry_with_backoff" /\ Attempt(NoReply, result)

\* send_message_with_retry: the operation is send_message.
SendMessage(reply) ==
    caller = "send_message_with_retry" /\ Attempt(reply, send_anthropic(reply))

\* sleep(backoff).await is over.
Wake ==
    /\ rpc = "sleeping"
    /\ rpc' = "loop"
    /\ UNCHANGED <<caller, config, attempt, calls, replies, results, sleeps, returned>>
    /\ UNCHANGED notRetry

NextRetry ==
    \/ \E result \in Results : Operation(result)
    \/ \E reply \in Replies : SendMessage(reply)
    \/ Wake

SpecRetry == InitRetry /\ [][NextRetry]_vars

(***************************************************************************)
(* send_message_with_retry and send_streaming_with_retry                   *)
(* (src/src/client.rs:583-606) on the Anthropic backend, and the stream    *)
(* that send_streaming_with_retry returns in the hands of its consumer.    *)
(***************************************************************************)
\* The configurations of the calls and the exchanges of a streaming request.
StreamConfigs == {RetryConfig(m, 500, 1500, 3, TRUE) : m \in 0..MaxAttempts}
StreamReplies ==
    {NoReply, Reply(200, None, "text"), Reply(400, None, "json"),
     Reply(429, Some(1), "text"), Reply(500, None, "text")}

\* What the response of a streaming request that succeeded holds.
StreamLogs == {<<FData>>, <<FBad, FData>>, <<FError, FData>>}

InitWithRetry ==
    /\ StreamIdle
    /\ DeltaIdle
    /\ ConvIdle
    /\ BatchIdle
    /\ caller \in {"send_message_with_retry", "send_streaming_with_retry"}
    /\ config \in StreamConfigs
    /\ attempt = 0
    /\ rpc = "loop"
    /\ calls = 0
    /\ replies = <<>>
    /\ results = <<>>
    /\ sleeps = <<>>
    /\ returned = Ok

\* The stream over the response whose body is the log.
Established(log) ==
    /\ frames' = log
    /\ wire' = Render(log)
    /\ sent' = 0
    /\ chunks' = <<0>>
    /\ source' = "open"
    /\ buffer' = ""
    /\ builder' = EmptyBuilder
    /\ state' = "Started"
    /\ pc' = "idle"
    /\ out' = <<>>
    /\ released' = 0

\* send_streaming_with_retry: one turn of the loop, the operation being
\* send_streaming; the stream of the turn that succeeds is returned.
SendStreaming(reply, log) ==
    /\ caller = "send_streaming_with_retry"
    /\ rpc = "loop"
    /\ attempt' = attempt + 1
    /\ calls' = calls + 1
    /\ replies' = Append(replies, reply)
    /\ results' = Append(results, send_streaming_anthropic(reply))
    /\ Turned(send_streaming_anthropic(reply))
    /\ IF send_streaming_anthropic(reply).ok
       THEN Established(log)
       ELSE UNCHANGED streamVars
    /\ UNCHANGED <<caller, config>>
    /\ UNCHANGED <<deltaVars, convVars, batchVars>>

NextWithRetry ==
    \/ \E reply \in Replies : SendMessage(reply)
    \/ \E reply \in StreamReplies, log \in StreamLogs : SendStreaming(reply, log)
    \/ Wake
    \/ Next

SpecWithRetry == InitWithRetry /\ [][NextWithRetry]_vars

(***************************************************************************)
(* ConversationBuilder (src/src/conversation.rs) and the Message           *)
(* constructors it uses (src/src/types.rs).                                *)
(***************************************************************************)
\* ContentBlock::Text, ContentBlock::ToolUse and ContentBlock::ToolResult.
Text(text) == [block |-> "text", id |-> "", text |-> text, is_error |-> "None"]
ToolUse(id) == [block |-> "tool_use", id |-> id, text |-> "", is_error |-> "None"]
ToolResult(tool_use_id, content, is_error) ==
    [block |-> "tool_result", id |-> tool_use_id, text |-> content, is_error |-> is_error]

Message(role, content) == [role |-> role, content |-> content]
user(text) == Message("User", <<Text(text)>>)
assistant(text) == Message("Assistant", <<Text(text)>>)
tool_result(tool_use_id, content) ==
    Message("User", <<ToolResult(tool_use_id, content, "None")>>)

MaxMessages == 3

\* The arguments of the calls.
Texts == {"Hello"}
ToolIds == {"toolu_123"}
Blocks == {<<Text(t), ToolUse(id)>> : t \in Texts, id \in ToolIds}

\* ConversationBuilder::new()
InitConv ==
    /\ StreamIdle
    /\ RetryIdle
    /\ DeltaIdle
    /\ BatchIdle
    /\ messages = <<>>
    /\ added = <<>>
    /\ request = MessagesRequest(<<>>, NoSystem, NoTools)
    /\ tools = <<>>
    /\ system = NoSystem

\* self.messages.push(message)
push(message) ==
    /\ Len(messages) < MaxMessages
    /\ messages' = Append(messages, message)
    /\ added' = Append(added, message)
    /\ UNCHANGED <<request, tools, system>>

add_user_message(content) ==
    /\ push(user(content))
    /\ UNCHANGED notConv

add_assistant_message(content) ==
    /\ push(assistant(content))
    /\ UNCHANGED notConv

add_assistant_with_blocks(content) ==
    /\ push(Message("Assistant", content))
    /\ UNCHANGED notConv

add_tool_result(tool_use_id, result) ==
    /\ push(tool_result(tool_use_id, result))
    /\ UNCHANGED notConv

add_tool_error(tool_use_id, error_message) ==
    /\ push(Message("User", <<ToolResult(tool_use_id, error_message, "Some(true)")>>))
    /\ UNCHANGED notConv

\* Mutant: clearing the messages also forgets the tools.
clear_messages_ClearsTools ==
    /\ messages' = <<>>
    /\ added' = <<>>
    /\ tools' = <<>>
    /\ UNCHANGED <<request, system>>
    /\ UNCHANGED notConv

clear_messages ==
    /\ messages' = <<>>
    /\ added' = <<>>
    /\ UNCHANGED <<request, tools, system>>
    /\ UNCHANGED notConv

\* Some(value).
SomeTools(tls) == [some |-> TRUE, tools |-> tls]

\* Mutant: the request always carries the tools, even when there are none.
build_AlwaysTools ==
    /\ request' = MessagesRequest(messages, system, SomeTools(tools))
    /\ UNCHANGED <<messages, added, tools, system>>
    /\ UNCHANGED notConv

\* build: MessagesRequest::new(model, max_tokens, self.messages.clone()), then
\* the system prompt if there is one and the tools if there are any.
build ==
    /\ request' = MessagesRequest(messages, system,
                                  IF tools # <<>> THEN SomeTools(tools) ELSE NoTools)
    /\ UNCHANGED <<messages, added, tools, system>>
    /\ UNCHANGED notConv

NextConv ==
    \/ \E t \in Texts : add_user_message(t)
    \/ \E t \in Texts : add_assistant_message(t)
    \/ \E b \in Blocks : add_assistant_with_blocks(b)
    \/ \E id \in ToolIds, t \in Texts : add_tool_result(id, t)
    \/ \E id \in ToolIds, t \in Texts : add_tool_error(id, t)
    \/ clear_messages
    \/ build

SpecConv == InitConv /\ [][NextConv]_vars

(***************************************************************************)
(* The builder with its tool definitions and its system prompt.            *)
(***************************************************************************)
MaxTools == 2

\* SystemPrompt::String(prompt) and SystemPrompt::Blocks with one text block
\* whose cache_control is ephemeral.
SystemPrompt(prompt, cached) == [some |-> TRUE, prompt |-> prompt, cached |-> cached]

\* A Tool: its name and whether its cache_control is set.
Tool(name, cache_control) == [name |-> name, cache_control |-> cache_control]

Prompts == {"You are helpful"}
ToolNames == {"get_weather"}

with_system(prompt) ==
    /\ system' = SystemPrompt(prompt, FALSE)
    /\ UNCHANGED <<messages, added, request, tools>>
    /\ UNCHANGED notConv

with_cached_system(prompt) ==
    /\ system' = SystemPrompt(prompt, TRUE)
    /\ UNCHANGED <<messages, added, request, tools>>
    /\ UNCHANGED notConv

with_tool(tool) ==
    /\ Len(tools) < MaxTools
    /\ tools' = Append(tools, tool)
    /\ UNCHANGED <<messages, added, request, system>>
    /\ UNCHANGED notConv

with_tools(tls) ==
    /\ Len(tools) + Len(tls) <= MaxTools
    /\ tools' = tools \o tls
    /\ UNCHANGED <<messages, added, request, system>>
    /\ UNCHANGED notConv

with_cached_tool(tool) ==
    /\ Len(tools) < MaxTools
    /\ tools' = Append(tools, Tool(tool.name, TRUE))
    /\ UNCHANGED <<messages, added, request, system>>
    /\ UNCHANGED notConv

NextBuild ==
    \/ \E p \in Prompts : with_system(p)
    \/ \E p \in Prompts : with_cached_system(p)
    \/ \E n \in ToolNames : with_tool(Tool(n, FALSE))
    \/ \E n \in ToolNames : with_tools(<<Tool(n, FALSE), Tool(n, FALSE)>>)
    \/ \E n \in ToolNames : with_cached_tool(Tool(n, FALSE))
    \/ \E t \in Texts : add_user_message(t)
    \/ \E t \in Texts : add_assistant_message(t)
    \/ clear_messages
    \/ build

SpecBuild == InitConv /\ [][NextBuild]_vars

(***************************************************************************)
(* content_block_delta frames and the accessors of ContentDelta            *)
(* (src/src/streaming.rs:174-222), applied by a consumer of the stream to  *)
(* every delta it is given.                                                *)
(***************************************************************************)
\* An Option<&str>.
NoneStr == [some |-> FALSE, str |-> ""]
SomeStr(s) == [some |-> TRUE, str |-> s]

\* Mutant: text() answers for every variant.
text_AnyVariant(d) == SomeStr(d.text)

\* impl ContentDelta: d is a decoded value, whose `delta` is the tag of the
\* variant and whose `text` is the variant's payload.
text(d) == IF d.delta = "text_delta" THEN SomeStr(d.text) ELSE NoneStr
partial_json(d) == IF d.delta = "input_json_delta" THEN SomeStr(d.text) ELSE NoneStr
thinking(d) == IF d.delta = "thinking_delta" THEN SomeStr(d.text) ELSE NoneStr
signature(d) == IF d.delta = "signature_delta" THEN SomeStr(d.text) ELSE NoneStr

\* What the four accessors return for one delta.
Accessors(d) ==
    [text |-> text(d), partial_json |-> partial_json(d),
     thinking |-> thinking(d), signature |-> signature(d)]

\* A number as the server writes it.
RECURSIVE to_string(_)
to_string(n) ==
    IF n < 10 THEN Ch("0123456789", n + 1)
    ELSE to_string(n \div 10) \o Ch("0123456789", (n % 10) + 1)

DeltaTags == {"text_delta", "input_json_delta", "thinking_delta", "signature_delta"}
DeltaIndexes == {0, 12}
DeltaTexts == {"Hi", "a b"}

\* The payload of a content_block_delta frame.
DeltaJson(index, tag, payload) ==
    "{\"type\":\"content_block_delta\",\"index\":" \o to_string(index)
        \o ",\"delta\":{\"type\":\"" \o tag \o "\",\"" \o DeltaField(tag) \o "\":\""
        \o payload \o "\"}}"

FDelta(index, tag, payload) ==
    Frame("content_block_delta", <<DeltaJson(index, tag, payload)>>, LF)

DeltaLogs ==
    {<<FDelta(index, tag, payload)>> :
        index \in DeltaIndexes, tag \in DeltaTags, payload \in DeltaTexts}

InitDelta ==
    /\ frames \in DeltaLogs
    /\ wire = Render(frames)
    /\ sent = 0
    /\ chunks = <<0>>
    /\ source = "open"
    /\ buffer = ""
    /\ builder = EmptyBuilder
    /\ state = "Started"
    /\ pc = "idle"
    /\ out = <<>>
    /\ released = 0
    /\ RetryIdle
    /\ DeltaIdle
    /\ ConvIdle
    /\ BatchIdle

\* The consumer looks at the next item it was given and, when it is a
\* ContentBlockDelta, asks the delta's accessors.
Consume ==
    /\ handled < Len(out)
    /\ handled' = handled + 1
    /\ accessed' =
            IF out[handled + 1].kind = "Ok"
                    /\ out[handled + 1].value.variant = "ContentBlockDelta"
            THEN Append(accessed, Accessors(out[handled + 1].value))
            ELSE accessed
    /\ UNCHANGED streamVars
    /\ UNCHANGED notDelta

NextDelta ==
    \/ Next
    \/ Consume

SpecDelta == InitDelta /\ [][NextDelta]_vars

(***************************************************************************)
(* Streams whose events do not follow the order of a message: deltas and   *)
(* stops of blocks that are not open, events before message_start and      *)
(* after message_stop.                                                     *)
(***************************************************************************)
MessageStartJson ==
    "{\"type\":\"message_start\",\"message\":{\"id\":\"msg_1\",\"type\":\"message\","
        \o "\"role\":\"assistant\",\"content\":[],\"model\":\"claude\","
        \o "\"usage\":{\"input_tokens\":1,\"output_tokens\":1}}}"

BlockStartJson(index) ==
    "{\"type\":\"content_block_start\",\"index\":" \o to_string(index)
        \o ",\"content_block\":{\"type\":\"text\",\"text\":\"\"}}"

FMessageStart == Frame("message_start", <<MessageStartJson>>, LF)
FBlockStart(index) == Frame("content_block_start", <<BlockStartJson(index)>>, LF)
FBlockStopAt(index) ==
    Frame("content_block_stop",
          <<"{\"type\":\"content_block_stop\",\"index\":" \o to_string(index) \o "}">>, LF)
FText(index) == FDelta(index, "text_delta", "Hi")

OrderLogs ==
    {<<FText(0)>>,
     <<FMessageStart, FText(0)>>,
     <<FText(0), FMessageStart>>,
     <<FBlockStart(0), FText(1)>>,
     <<FBlockStart(0), FBlockStopAt(1)>>,
     <<FBlockStart(0), FBlockStopAt(0), FText(0)>>,
     <<FBlockStart(0), FBlockStopAt(0), FBlockStopAt(0)>>,
     <<FStop, FText(0)>>,
     <<FStop, FMessageStart>>,
     <<FBlockStart(0), FText(0), FBlockStopAt(0)>>}

InitOrder ==
    /\ frames \in OrderLogs
    /\ wire = Render(frames)
    /\ sent = 0
    /\ chunks = <<0>>
    /\ source = "open"
    /\ buffer = ""
    /\ builder = EmptyBuilder
    /\ state = "Started"
    /\ pc = "idle"
    /\ out = <<>>
    /\ released = 0
    /\ RetryIdle
    /\ DeltaIdle
    /\ ConvIdle
    /\ BatchIdle

SpecOrder == InitOrder /\ [][Next]_vars

(***************************************************************************)
(* BatchClient::wait_for_completion (src/src/batch.rs:435-470) and the     *)
(* life of the batch it polls: in_progress, then maybe canceling, then     *)
(* ended.                                                                  *)
(***************************************************************************)
MaxPolls == 3

BatchProcessingStatus == {"in_progress", "canceling", "ended"}

\* The errors of retrieve: no response, a status that is not a success, a body
\* that is not a MessageBatch.
RetrieveErrors ==
    {Error("Http", 0, None), Error("Api", 404, None), Error("Api", 500, None)}

\* The last MaxPolls entries of a log to which x is added.
Logged(log, x) == Append(IF Len(log) >= MaxPolls THEN Tail(log) ELSE log, x)

InitBatch ==
    /\ StreamIdle
    /\ RetryIdle
    /\ DeltaIdle
    /\ ConvIdle
    /\ processing_status \in BatchProcessingStatus
    /\ bpc = "retrieve"
    /\ seen = <<>>
    /\ naps = <<>>
    /\ completion = BatchOk("")

\* The batch is being cancelled.
Cancel ==
    /\ processing_status = "in_progress"
    /\ processing_status' = "canceling"
    /\ UNCHANGED <<bpc, seen, naps, completion>>
    /\ UNCHANGED notBatch

\* The batch ends.
End ==
    /\ processing_status \in {"in_progress", "canceling"}
    /\ processing_status' = "ended"
    /\ UNCHANGED <<bpc, seen, naps, completion>>
    /\ UNCHANGED notBatch

\* Mutant: a batch that is being cancelled counts as complete.
RetrieveOk_CancelingReturns ==
    /\ bpc = "retrieve"
    /\ seen' = Logged(seen, BatchOk(processing_status))
    /\ IF processing_status \in {"ended", "canceling"}
       THEN bpc' = "returned" /\ completion' = BatchOk(processing_status)
       ELSE bpc' = "sleeping" /\ completion' = completion
    /\ UNCHANGED <<processing_status, naps>>
    /\ UNCHANGED notBatch

\* self.retrieve(batch_id).await succeeds: the call returns the batch when it
\* has ended and goes to sleep otherwise.
RetrieveOk ==
    /\ bpc = "retrieve"
    /\ seen' = Logged(seen, BatchOk(processing_status))
    /\ IF processing_status = "ended"
       THEN bpc' = "returned" /\ completion' = BatchOk(processing_status)
       ELSE bpc' = "sleeping" /\ completion' = completion
    /\ UNCHANGED <<processing_status, naps>>
    /\ UNCHANGED notBatch

\* self.retrieve(batch_id).await? fails: the error is returned.
RetrieveErr(error) ==
    /\ bpc = "retrieve"
    /\ seen' = Logged(seen, BatchErr(error))
    /\ bpc' = "returned"
    /\ completion' = BatchErr(error)
    /\ UNCHANGED <<processing_status, naps>>
    /\ UNCHANGED notBatch

\* tokio::time::sleep(Duration::from_secs(60)).await is over.
WakeBatch ==
    /\ bpc = "sleeping"
    /\ naps' = Logged(naps, 60)
    /\ bpc' = "retrieve"
    /\ UNCHANGED <<processing_status, seen, completion>>
    /\ UNCHANGED notBatch

NextBatch ==
    \/ Cancel
    \/ End
    \/ RetrieveOk
    \/ \E error \in RetrieveErrors : RetrieveErr(error)
    \/ WakeBatch

\* The call is a future that is polled to its end: a retrieve that can be made
\* is made, a sleep that can end ends.
SpecBatch ==
    /\ InitBatch
    /\ [][NextBatch]_vars
    /\ WF_vars(RetrieveOk \/ \E error \in RetrieveErrors : RetrieveErr(error))
    /\ WF_vars(WakeBatch)

(***************************************************************************)
(* What the log says the stream has to yield.                              *)
(***************************************************************************)
IsPrefix(a, b) == Len(a) <= Len(b) /\ a = SubSeq(b, 1, Len(a))

RECURSIVE JoinLines(_)
JoinLines(lines) ==
    IF lines = <<>> THEN ""
    ELSE IF Len(lines) = 1 THEN Head(lines)
    ELSE Head(lines) \o LF \o JoinLines(Tail(lines))

\* The payload and the name of a frame, by the wire format.
Data(f) == JoinLines(f.lines)
SseName(f) == IF f.event = "" THEN "message" ELSE f.event

\* The frames whose bytes are all among the first n bytes of the log.
RECURSIVE Completed(_, _)
Completed(fs, n) ==
    IF fs = <<>> \/ Len(RenderFrame(Head(fs))) > n THEN <<>>
    ELSE <<Head(fs)>> \o Completed(Tail(fs), n - Len(RenderFrame(Head(fs))))

Arrived == Completed(frames, sent)

\* The frames that carry a payload.
Yielding(fs) == SelectSeq(fs, LAMBDA f : Data(f) # "")

\* The item a frame with a payload stands for.
FrameItem(f) ==
    LET m == MapEvent(SseEvent([event |-> SseName(f), data |-> Data(f)])) IN
    IF m.kind = "Some" THEN OkItem(m.value) ELSE ErrItem(m)

Expected(fs) == [i \in 1..Len(Yielding(fs)) |-> FrameItem(Yielding(fs)[i])]

\* Everything a buffer yields when it is pulled until nothing is left.
RECURSIVE AllItems(_, _)
AllItems(buf, b) ==
    LET p == poll_buffered(buf, b) IN
    IF p.item.kind = "Pending" THEN <<>>
    ELSE <<p.item>> \o AllItems(p.buffer, p.builder)

\* The items that come from frames: not the end marks, not the failures of the
\* byte source.
FromSource(it) == it.kind = "Err" /\ it.msg \in Causes
Decoded(items) == SelectSeq(items, LAMBDA it : it.kind # "End" /\ ~FromSource(it))

\* Every frame that has arrived has been pulled.
Drained == pc = "awaiting" \/ source # "open"

PingItem == OkItem(Ev("Ping", 0, "", "", "", ""))
StopItem == OkItem(Ev("MessageStop", 0, "", "", "", ""))
OverloadedItem == OkItem(Ev("Error", 0, "", "", "overloaded_error", "Overloaded"))
DecodeError(it) == it.kind = "Err" /\ ~FromSource(it)

(***************************************************************************)
(* C1.  Chunk-boundary invariance: however the bytes delivered so far were *)
(* cut into chunks, the items yielded are those that the same bytes yield  *)
(* when they arrive as one chunk, in the same order; all of them once the  *)
(* buffer has been drained.                                                *)
(***************************************************************************)
ChunkInvariance ==
    LET whole == AllItems(SubSeq(wire, 1, sent), EmptyBuilder) IN
    /\ IsPrefix(Decoded(out), whole)
    /\ Drained => Decoded(out) = whole

\* A first event has been yielded and the next frame has arrived up to the
\* first of the line ends that close it.
ChunkInvarianceWitness ==
    /\ pc = "awaiting"
    /\ Len(Decoded(out)) >= 1
    /\ builder.data # ""
    /\ buffer = ""

(***************************************************************************)
(* C2.  A payload that fails to parse is terminal: after a pull has        *)
(* yielded a decode error, no later pull yields an event.                  *)
(***************************************************************************)
DecodeErrorIsTerminal ==
    \A i, j \in 1..Len(out) :
        i < j /\ DecodeError(out[i]) => out[j].kind # "Ok"

(***************************************************************************)
(* C3.  As claimed: no item yielded is StreamEvent::Ping.                  *)
(***************************************************************************)
PingNeverYielded == \A i \in 1..Len(out) : out[i] # PingItem

(***************************************************************************)
(* C3, amended.  A frame named ping yields StreamEvent::Ping exactly when  *)
(* its payload is not empty, whatever the payload is: the Ping items       *)
(* yielded are as many as the ping frames with a payload that have arrived.*)
(***************************************************************************)
Pings(items) == Len(SelectSeq(items, LAMBDA it : it = PingItem))
PingFrames(fs) == Len(SelectSeq(fs, LAMBDA f : f.event = "ping" /\ Data(f) # ""))

PingYieldedIffPayload ==
    /\ Pings(out) <= PingFrames(Arrived)
    /\ Drained => Pings(out) = PingFrames(Arrived)

PingYieldedWitness ==
    /\ frames = <<FPingEmpty, FPingJunk>>
    /\ source = "closed"
    /\ out = <<PingItem, EndItem>>

(***************************************************************************)
(* C4.  Frames with an empty payload yield nothing: the items yielded are  *)
(* those of the log from which the frames without payload are deleted.     *)
(***************************************************************************)
EmptyFramesSwallowed ==
    LET rest == AllItems(Render(Yielding(Arrived)), EmptyBuilder) IN
    /\ IsPrefix(Decoded(out), rest)
    /\ Drained => Decoded(out) = rest

EmptyFramesSwallowedWitness ==
    /\ frames = <<FData, FErrorEmpty, FData>>
    /\ sent = Len(wire)
    /\ out = <<StopItem, StopItem, EndItem>>

(***************************************************************************)
(* C5.  As claimed: the chunks "event: message_sto" and "p\n\n" and then   *)
(* the end of the source yield exactly one MessageStop and then the end.   *)
(***************************************************************************)
SplitStopCase ==
    /\ wire = "event: message_stop\n\n"
    /\ chunks = <<Len("event: message_sto"), Len("p\n\n")>>
    /\ source = "closed"
    /\ \A i \in 1..Len(out) : ~FromSource(out[i])

SplitStopYieldsMessageStop ==
    SplitStopCase => Len(out) >= 2 /\ out[1] = StopItem /\ out[2] = EndItem

(***************************************************************************)
(* C5, amended.  These chunks yield no event: the frame has no data line,  *)
(* and every pull signals the end.                                         *)
(***************************************************************************)
SplitStopYieldsNothing ==
    SplitStopCase => out # <<>> /\ \A i \in 1..Len(out) : out[i] = EndItem

SplitStopWitness == SplitStopCase /\ out = <<EndItem>>

(***************************************************************************)
(* C6.  A well-formed error frame is an ordinary event: it yields the one  *)
(* item Ok(Error{error_type, message}) of its payload, every frame with a  *)
(* payload yields one item, also after an error frame, and the end is      *)
(* signalled only when the byte source has ended.                          *)
(***************************************************************************)
ErrorFrameIsEvent ==
    LET fs == Yielding(Arrived)
        got == Decoded(out)
    IN  /\ Len(got) <= Len(fs)
        /\ Drained => Len(got) = Len(fs)
        /\ \A i \in 1..Len(got) : fs[i] = FError => got[i] = OverloadedItem
        /\ Ends(out) > 0 => source = "closed"

ErrorFrameIsEventWitness ==
    /\ frames = <<FError, FData>>
    /\ out = <<OverloadedItem, StopItem>>
    /\ source = "open"

(***************************************************************************)
(* C7.  The response body is released exactly once: not before the         *)
(* consumer lets go of the stream, once when it does, on whatever path,    *)
(* and from then on nothing pulls from the stream or reads the source.     *)
(***************************************************************************)
ReleasedExactlyOnce ==
    /\ released = IF pc = "dropped" THEN 1 ELSE 0
    /\ pc = "dropped" => ~ENABLED Next

\* The consumer has abandoned the stream in the middle of a frame.
ReleasedWitness ==
    /\ pc = "dropped"
    /\ released = 1
    /\ source = "open"
    /\ sent < Len(wire)
    /\ buffer # ""
    /\ Len(out) >= 1

(***************************************************************************)
(* C8.  Order preservation: the items yielded are the items of the frames  *)
(* that have arrived and carry a payload, in the order of the frames, each *)
(* once.                                                                   *)
(***************************************************************************)
OrderPreserved ==
    /\ IsPrefix(Decoded(out), Expected(Arrived))
    /\ Drained => Decoded(out) = Expected(Arrived)

OrderPreservedWitness ==
    /\ frames = <<FData, FBlockStop, FData>>
    /\ Len(out) = 3
    /\ out[1] = StopItem
    /\ out[2] = OkItem(Ev("ContentBlockStop", 1, "", "", "", ""))
    /\ out[3] = StopItem

(***************************************************************************)
(* C9.  The payload selects the variant: a frame named neither ping nor    *)
(* error whose payload is a well-formed tagged object yields the variant   *)
(* that the payload's type names, whatever the frame's name.               *)
(***************************************************************************)
PayloadTag(data) == StrVal(StripWs(data), Len("{\"type\":") + 1)

PayloadSelectsVariant ==
    LET fs == Yielding(Arrived)
        got == Decoded(out)
    IN  \A i \in 1..Len(got) :
            (/\ i <= Len(fs)
             /\ fs[i].event \notin {"ping", "error"}
             /\ from_str_StreamEvent(Data(fs[i])).ok)
            => /\ got[i].kind = "Ok"
               /\ got[i].value.variant = VariantOfTag(PayloadTag(Data(fs[i])))

PayloadSelectsVariantWitness ==
    /\ frames = <<FMismatch, FData>>
    /\ out = <<StopItem>>

Partial == SubSeq(wire, Len(Render(Arrived)) + 1, sent)
Kept == parse_event(Partial, EmptyBuilder)

NoPartialEvents ==
    /\ Len(Decoded(out)) <= Len(Yielding(Arrived))
    /\ ~Kept.ev.some
    /\ EndsWith(buffer, Kept.buffer)
    /\ Drained => buffer = Kept.buffer /\ builder = Kept.builder
    /\ source # "open" => Decoded(out) = Expected(Arrived)

\* The byte source has ended one byte before the blank line of the second
\* frame was whole.
NoPartialEventsWitness ==
    /\ frames = <<FData, FBlockStop>>
    /\ source = "closed"
    /\ sent = Len(wire) - 1
    /\ builder.data # ""
    /\ buffer = CR
    /\ out = <<StopItem, EndItem>>

(***************************************************************************)
(* C12.  Forward only, never restartable: the items yielded are never more *)
(* than the frames with a payload, each in its place, and once a pull has  *)
(* signalled the end a step yields nothing but the end again.              *)
(***************************************************************************)
ForwardOnly ==
    /\ [](IsPrefix(Decoded(out), Expected(frames)))
    /\ [][Ends(out) > 0 => out' = out \/ out' = Append(out, EndItem)]_vars

\* Two pulls after the last event have both signalled the end.
ForwardOnlyWitness ==
    /\ frames = <<FData, FBlockStop>>
    /\ Len(out) = 4
    /\ out[2].kind = "Ok"
    /\ out[3] = EndItem
    /\ out[4] = EndItem

(***************************************************************************)
(* What retry_with_backoff has to do.                                      *)
(***************************************************************************)
Max(a, b) == IF a >= b THEN a ELSE b
Last(seq) == seq[Len(seq)]
Decisive(r) == r.ok \/ ~is_retryable(r.error)
AllRetryable(rs) == \A i \in 1..Len(rs) : ~Decisive(rs[i])

(***************************************************************************)
(* C13.  As claimed: for every max_attempts the operation is never invoked *)
(* more than max_attempts times.                                           *)
(***************************************************************************)
AttemptsWithinMax == calls <= config.max_attempts

(***************************************************************************)
(* C13, amended.  The operation is invoked at least once and never more    *)
(* than max(1, max_attempts) times; when every attempt fails with a        *)
(* retryable error it is invoked exactly that many times and the call      *)
(* returns the error of the last attempt.                                  *)
(***************************************************************************)
AttemptsBounded ==
    /\ calls = Len(results)
    /\ calls <= Max(1, config.max_attempts)
    /\ rpc = "returned" => calls >= 1
    /\ rpc = "returned" /\ AllRetryable(results) =>
            /\ calls = Max(1, config.max_attempts)
            /\ returned = Last(results)

\* Three retryable failures, the last one of another kind than the first.
AttemptsBoundedWitness ==
    /\ config.max_attempts = 3
    /\ rpc = "returned"
    /\ calls = 3
    /\ AllRetryable(results)
    /\ results[1].error.variant = "Server"
    /\ returned = Err(Error("Network", 0, None))

(***************************************************************************)
(* C14.  The call stops at the first decisive attempt: no attempt follows  *)
(* one that succeeded or failed with an error that is not retryable, and   *)
(* the call returns that attempt's result; so an error that is not         *)
(* retryable on the first attempt is returned after one invocation.        *)
(***************************************************************************)
StopsAtFirstDecisive ==
    /\ \A i \in 1..(Len(results) - 1) : ~Decisive(results[i])
    /\ results # <<>> /\ Decisive(Last(results)) =>
            /\ rpc = "returned"
            /\ returned = Last(results)
            /\ calls = Len(results)
            /\ Len(sleeps) = calls - 1
    /\ Len(results) >= 1 /\ Decisive(results[1]) => calls = 1 /\ sleeps = <<>>

\* The third attempt succeeds after two retryable failures.
StopsAtFirstDecisiveWitness ==
    /\ calls = 3
    /\ config.max_attempts >= 3
    /\ ~Decisive(results[1])
    /\ ~Decisive(results[2])
    /\ results[3] = Ok
    /\ rpc = "returned"
    /\ returned = Ok

(***************************************************************************)
(* C15.  The backoff never exceeds max_backoff.  The sleep after the n-th  *)
(* failed attempt is min(s seconds, max_backoff) when respect_retry_after  *)
(* is set and the error carries retry_after = Some(s), and otherwise       *)
(* min(initial_backoff * backoff_multiplier^(n-1), max_backoff): 1 s, 2 s  *)
(* and 4 s for 1 s and 2.  There is one sleep between two attempts.        *)
(***************************************************************************)
BackoffAsDocumented ==
    /\ Len(sleeps) = IF rpc = "returned" THEN calls - 1 ELSE calls
    /\ \A n \in 1..Len(sleeps) :
          LET e == results[n].error IN
          /\ sleeps[n] <= config.max_backoff
          /\ sleeps[n] =
                IF /\ config.respect_retry_after
                   /\ e.variant = "RateLimit"
                   /\ e.retry_after.some
                THEN Min(e.retry_after.secs * 1000, config.max_backoff)
                ELSE Min(config.initial_backoff * config.backoff_multiplier ^ (n - 1),
                         config.max_backoff)
    /\ ~config.respect_retry_after /\ config.initial_backoff = 1000
          /\ config.backoff_multiplier = 2 /\ config.max_backoff >= 4000
          => IsPrefix(sleeps, <<1000, 2000, 4000, 8000, 16000>>)

\* A retry-after hint above the cap, a hint below it, and an exponential
\* backoff above the cap.
BackoffAsDocumentedWitness ==
    /\ config = RetryConfig(4, 500, 1500, 3, TRUE)
    /\ Len(results) >= 3
    /\ results[1].error = Error("RateLimit", 0, Some(120))
    /\ results[2].error = Error("RateLimit", 0, Some(1))
    /\ results[3].error = Error("Network", 0, None)
    /\ sleeps = <<1500, 1000, 1500>>

ErrorOfStatus(status) ==
    CASE status \in {401, 403} -> {"Authentication"}
      [] status = 400 -> {"Api", "InvalidRequest"}
      [] OTHER -> {"Api"}

RetriesOn429And5xxOnly ==
    caller = "send_message_with_retry" =>
        \A i \in 1..Len(replies) :
            LET st == replies[i].status
                last == i = Len(replies) /\ rpc = "returned"
            IN  /\ replies[i].received /\ (st = 429 \/ (500 <= st /\ st <= 599)) =>
                    (last <=> i >= config.max_attempts)
                /\ replies[i].received /\ st # 200 /\ st # 429 /\ ~(500 <= st /\ st <= 599) =>
                    /\ last
                    /\ ~returned.ok
                    /\ returned.error.variant \in ErrorOfStatus(st)
                    /\ returned.error.variant = "Api" => returned.error.status = st

\* 429 and 503 were retried, 401 ended the call.
RetriesOn429And5xxOnlyWitness ==
    /\ caller = "send_message_with_retry"
    /\ Len(replies) = 3
    /\ replies[1].status = 429
    /\ replies[2].status = 503
    /\ replies[3].status = 401
    /\ rpc = "returned"
    /\ returned = Err(Error("Authentication", 0, None))

(***************************************************************************)
(* C18.  As claimed: after any sequence of add_* and clear_messages calls  *)
(* no two consecutive messages have the same role, the messages are those  *)
(* added since the last clear in the order of their insertion, and build() *)
(* returns them in that order.                                             *)
(***************************************************************************)
RolesAlternate ==
    /\ [](\A i \in 1..(Len(messages) - 1) : messages[i].role # messages[i + 1].role)
    /\ [](messages = added)
    /\ [][request' # request => request'.messages = added]_vars

(***************************************************************************)
(* C19.  wait_for_completion polls until the batch has ended: it returns   *)
(* Ok only with a batch whose processing_status is ended; a retrieve that  *)
(* shows in_progress or canceling is followed by a sleep of 60 s and       *)
(* another retrieve; the first failed retrieve ends the call with its      *)
(* error; and when every retrieve succeeds and the batch ends, the call    *)
(* returns.                                                                *)
(***************************************************************************)
Polling ==
    /\ bpc = "returned" =>
            /\ seen # <<>>
            /\ completion = Last(seen)
            /\ completion.ok => completion.processing_status = "ended"
    /\ \A i \in 1..Len(seen) :
            \/ i = Len(seen) /\ bpc = "returned"
            \/ seen[i].ok /\ seen[i].processing_status \in {"in_progress", "canceling"}
    /\ \A i \in 1..Len(naps) : naps[i] = 60
    /\ Len(seen) < MaxPolls =>
            Len(naps) = IF bpc = "retrieve" THEN Len(seen) ELSE Len(seen) - 1

WaitForCompletion ==
    /\ []Polling
    /\ [](bpc = "returned" => completion.ok) /\ <>(processing_status = "ended")
            => <>(bpc = "returned" /\ completion = BatchOk("ended"))

\* The call has seen in_progress and canceling, slept twice and returned the
\* ended batch.
WaitForCompletionWitness ==
    /\ seen = <<BatchOk("in_progress"), BatchOk("canceling"), BatchOk("ended")>>
    /\ naps = <<60, 60>>
    /\ bpc = "returned"
    /\ completion = BatchOk("ended")

(***************************************************************************)
(* C20.  A content_block_delta payload keeps its fields: the payload with  *)
(* index i and a delta of one kind with text t decodes to                  *)
(* ContentBlockDelta with index i and the delta of that kind with text t,  *)
(* and each of text(), partial_json(), thinking() and signature() returns  *)
(* Some(t) for its own variant and None for the other three.               *)
(***************************************************************************)
\* What the accessors are to return for a delta of kind tag with text t.
OwnOnly(tag, t) ==
    [text |-> IF tag = "text_delta" THEN SomeStr(t) ELSE NoneStr,
     partial_json |-> IF tag = "input_json_delta" THEN SomeStr(t) ELSE NoneStr,
     thinking |-> IF tag = "thinking_delta" THEN SomeStr(t) ELSE NoneStr,
     signature |-> IF tag = "signature_delta" THEN SomeStr(t) ELSE NoneStr]

DeltaKeepsFields ==
    \A index \in DeltaIndexes, tag \in DeltaTags, t \in DeltaTexts :
        frames = <<FDelta(index, tag, t)>> =>
            /\ \A k \in 1..Len(out) :
                    out[k].kind = "Ok" =>
                        out[k].value = Ev("ContentBlockDelta", index, tag, t, "", "")
            /\ sent = Len(wire) /\ Ends(out) > 0
                    /\ (\A k \in 1..Len(out) : out[k].kind # "Err") =>
                    out[1].kind = "Ok"
            /\ \A k \in 1..Len(accessed) : accessed[k] = OwnOnly(tag, t)
            /\ handled = Len(out) =>
                    Len(accessed) = Len(SelectSeq(out, LAMBDA it : it.kind = "Ok"))

\* The consumer was given the thinking delta of index 12 and text "a b" and
\* has asked its accessors.
DeltaKeepsFieldsWitness ==
    /\ frames = <<FDelta(12, "thinking_delta", "a b")>>
    /\ out # <<>>
    /\ out[1] = OkItem(Ev("ContentBlockDelta", 12, "thinking_delta", "a b", "", ""))
    /\ accessed = <<[text |-> NoneStr, partial_json |-> NoneStr,
                     thinking |-> SomeStr("a b"), signature |-> NoneStr]>>

\* sub occurs in s.
Contains(s, sub) ==
    \E i \in 1..(Len(s) - Len(sub) + 1) : SubSeq(s, i, i + Len(sub) - 1) = sub

\* The decode errors among the items yielded, each with the frame it came from.
FailedFrames ==
    {i \in 1..Len(Decoded(out)) :
        /\ i <= Len(Yielding(frames))
        /\ Decoded(out)[i].kind = "Err"
        /\ Yielding(frames)[i].event # "error"}

(***************************************************************************)
(* C21.  As claimed: the error yielded for a payload that fails to parse   *)
(* on a frame not named error carries the frame's event name and the       *)
(* frame's raw payload.                                                    *)
(***************************************************************************)
DecodeErrorCarriesPayload ==
    \A i \in FailedFrames :
        /\ Contains(Decoded(out)[i].msg, SseName(Yielding(frames)[i]))
        /\ Contains(Decoded(out)[i].msg, Data(Yielding(frames)[i]))

(***************************************************************************)
(* C21, amended.  The error yielded for a payload that fails to parse on a *)
(* frame not named error is Error::StreamParse whose message is            *)
(* "Failed to parse event '<name>': " followed by the parser's message: it *)
(* carries the frame's event name and what the parser found wrong, and no  *)
(* field of it holds the payload.                                          *)
(***************************************************************************)
DecodeErrorNamesFrame ==
    /\ Len(Decoded(out)) <= Len(Yielding(frames))
    /\ \A i \in FailedFrames :
            /\ Decoded(out)[i].error = "StreamParse"
            /\ Decoded(out)[i].value = NoValue
            /\ Decoded(out)[i].msg =
                    "Failed to parse event '" \o SseName(Yielding(frames)[i]) \o "': "
                        \o from_str_StreamEvent(Data(Yielding(frames)[i])).msg
            /\ Contains(Decoded(out)[i].msg, SseName(Yielding(frames)[i]))

\* The frame content_block_stop with the payload {"type": has failed after a
\* frame that was decoded, and the message does not hold the payload.
DecodeErrorNamesFrameWitness ==
    /\ frames = <<FData, FBad, FData>>
    /\ Len(out) >= 2
    /\ out[1] = StopItem
    /\ out[2].kind = "Err"
    /\ Contains(out[2].msg, "content_block_stop")
    /\ ~Contains(out[2].msg, Data(FBad))

(***************************************************************************)
(* C22.  As claimed: every frame named ping is decoded to Ping, so once    *)
(* the arrived frames are drained the Ping items are as many as the frames *)
(* named ping, whatever their payload, the empty one included.             *)
(***************************************************************************)
EveryPingFrameIsPing ==
    Drained =>
        Pings(out) = Len(SelectSeq(Arrived, LAMBDA f : f.event = "ping"))

(***************************************************************************)
(* C22, amended.  The payload of a frame named ping is never parsed: a     *)
(* ping frame with a payload, well-formed or not, yields Ping, never a     *)
(* decode error and never another variant; a ping frame with an empty      *)
(* payload yields no item at all.                                          *)
(***************************************************************************)
PingPayloadIgnored ==
    /\ Len(Decoded(out)) <= Len(Yielding(frames))
    /\ \A i \in 1..Len(Decoded(out)) :
            Yielding(frames)[i].event = "ping" => Decoded(out)[i] = PingItem
    /\ Drained => Len(Decoded(out)) = Len(Yielding(Arrived))

\* The ping frame whose payload is "?" has yielded Ping between two events, and
\* the stream has gone on to its end.
PingPayloadIgnoredWitness ==
    /\ frames = <<FData, FPingJunk, FData>>
    /\ out = <<StopItem, PingItem, StopItem, EndItem>>

(***************************************************************************)
(* C23.  clear_messages empties the messages and leaves the tools and the  *)
(* system prompt as they are; build() leaves the builder as it is, and the *)
(* request it returns carries the current messages, the system prompt when *)
(* one is set, and the tools only when there is at least one.              *)
(***************************************************************************)
ClearAndBuildFrame ==
    /\ [][messages' = <<>> /\ messages # <<>> => UNCHANGED <<tools, system>>]_vars
    /\ [][request' # request =>
            /\ UNCHANGED <<messages, tools, system>>
            /\ request'.messages = messages
            /\ request'.system = system
            /\ request'.tools.some <=> tools # <<>>
            /\ request'.tools.tools = tools]_vars
    /\ [](request.tools.some => request.tools.tools # <<>>)

\* A request was built with a message, the system prompt and a tool; then the
\* messages were cleared, and the tool and the system prompt are still there.
ClearAndBuildFrameWitness ==
    /\ request = MessagesRequest(<<user("Hello")>>, SystemPrompt("You are helpful", FALSE),
                                 SomeTools(<<Tool("get_weather", TRUE)>>))
    /\ messages = <<>>
    /\ tools = <<Tool("get_weather", TRUE)>>
    /\ system = SystemPrompt("You are helpful", FALSE)

\* The event that each frame of the logs out of order was written for.
SentEvent(f) ==
    CASE f = FMessageStart -> Ev("MessageStart", 0, "assistant", "msg_1", "", "claude")
      [] f = FStop -> Ev("MessageStop", 0, "", "", "", "")
      [] f \in {FBlockStart(0)} -> Ev("ContentBlockStart", 0, "text", "", "", "")
      [] f = FBlockStopAt(0) -> Ev("ContentBlockStop", 0, "", "", "", "")
      [] f = FBlockStopAt(1) -> Ev("ContentBlockStop", 1, "", "", "", "")
      [] f = FText(0) -> Ev("ContentBlockDelta", 0, "text_delta", "Hi", "", "")
      [] f = FText(1) -> Ev("ContentBlockDelta", 1, "text_delta", "Hi", "", "")

SentItems(fs) == [i \in 1..Len(fs) |-> OkItem(SentEvent(fs[i]))]

(***************************************************************************)
(* C24.  No content-block index validation: a delta or a stop of a block   *)
(* that was never opened or was already stopped, and an event before       *)
(* message_start or after message_stop, is yielded as the event it was     *)
(* written for, in its place, never as an error and never dropped.         *)
(***************************************************************************)
NoIndexValidation ==
    /\ IsPrefix(Decoded(out), SentItems(Arrived))
    /\ Drained => Decoded(out) = SentItems(Arrived)

\* The delta of a block already stopped has been yielded after the block's
\* start and stop.
NoIndexValidationWitness ==
    /\ frames = <<FBlockStart(0), FBlockStopAt(0), FText(0)>>
    /\ out = <<OkItem(Ev("ContentBlockStart", 0, "text", "", "", "")),
               OkItem(Ev("ContentBlockStop", 0, "", "", "", "")),
               OkItem(Ev("ContentBlockDelta", 0, "text_delta", "Hi", "", "")),
               EndItem>>

(***************************************************************************)
(* C25.  send_streaming_with_retry retries the establishment of the stream *)
(* only: every attempt is one whole request, the stream returned is that   *)
(* of the one attempt that succeeded, and once it has been returned        *)
(* nothing met while it is consumed (a failure of the byte source, a       *)
(* decode error, an Error event, the end) causes a further request or      *)
(* moves the stream back.                                                  *)
(***************************************************************************)
EstablishmentOnly ==
    /\ [](calls = Len(replies) /\ calls = Len(results))
    /\ [](frames # <<>> =>
            /\ rpc = "returned"
            /\ returned.ok
            /\ Last(results).ok
            /\ \A i \in 1..(Len(results) - 1) : ~results[i].ok)
    /\ [][frames # <<>> =>
            /\ UNCHANGED <<calls, replies, results, sleeps, frames, wire>>
            /\ sent' >= sent
            /\ IsPrefix(out, out')]_vars

\* The stream of the third attempt met a failure of the byte source after its
\* first event and was pulled to its end: three requests in all.
EstablishmentOnlyWitness ==
    /\ caller = "send_streaming_with_retry"
    /\ calls = 3
    /\ frames = <<FError, FData>>
    /\ Len(out) = 3
    /\ out[1] = OverloadedItem
    /\ FromSource(out[2])
    /\ out[3] = EndItem

====
